---- MODULE Spec2Model ----
(***************************************************************************)
(* Weekly analytics of the habit tracker: the progress aggregator          *)
(* (calculateWeeklyProgress) and the insight rule engine                   *)
(* (generateInsights), driven as the dashboard drives them: the pairings   *)
(* of the week under view are aggregated, then the rules run on the        *)
(* aggregate.                                                              *)
(*                                                                         *)
(* Hours are JavaScript numbers in the source.  Here every hours value is  *)
(* an integer number of one common unit, and every comparison against a    *)
(* fractional threshold (0.5, 0.7, 0.8) is cross-multiplied, so the        *)
(* arithmetic is the exact arithmetic of the source's formulas.            *)
(***************************************************************************)
EXTENDS Integers, Sequences, FiniteSets, TLC

VARIABLES habitsWithLogs, todayIndex, isCurrentWeek, progress, insights, pc,
          exportData,
          store, weekLogs, currentWeekId, writes,
          syncQueue, nextOp, retryResult, online, status,
          navWeek, weekList, lastNav,
          clock, timers, nextTimer, debounceTimeouts, saving, lastCall

\* the state of the analytics, and the state outside of it
analytics == <<habitsWithLogs, todayIndex, isCurrentWeek, progress, insights, pc>>

\* the state of the useHabits hook: the weekLogs collection of the document
\* store, the hook's weekLogs and currentWeekId, and the number of writes
\* issued so far
hook == <<store, weekLogs, currentWeekId, writes>>

\* the offline sync queue kept in localStorage, the number of the next
\* operation id, the value returned by the last incrementRetry call ("none"
\* when the last call was another one), navigator.onLine and the state of
\* the useNetworkStatus hook
queue == <<syncQueue, nextOp, retryResult>>

network == <<online, status>>

\* the sidebar: the week id it shows, the week list it computed when it was
\* mounted and the handler that ran last
navigator == <<navWeek, weekList, lastNav>>

\* the hours table: the time in ticks, the timeouts that were set and have
\* neither fired nor been cleared, the id of the next timeout, the map from
\* a cell to the id of its timeout, the saves that were started and have not
\* settled, and for every cell the time and the value of the last change of
\* its input with a flag that tells whether a save was started since
debouncer == <<clock, timers, nextTimer, debounceTimeouts, saving, lastCall>>

ui == <<navigator, debouncer>>

outside == <<exportData, hook, queue, network, ui>>

vars == <<analytics, outside>>

(***************************************************************************)
(* Bounds of the explored inputs.                                          *)
(***************************************************************************)
MaxHabits == 2
MaxHours == 2
MaxNow == 1
RankHabits == 3
MaxWrites == 2
LastEditDay == 1
MaxEdit == 1
MaxOps == 3
MaxYears == 3
MaxTime == 4
MaxCalls == 3

(***************************************************************************)
(* Program constants.                                                      *)
(***************************************************************************)
DAYS == 7
DAY_NAMES == <<"Mon", "Tue", "Wed", "Thu", "Fri", "Sat", "Sun">>
DAY_NAMES_SHORT == <<"Mon", "Tue", "Wed", "Thu", "Fri", "Sat", "Sun">>
DAY_NAMES_FULL ==
  <<"Monday", "Tuesday", "Wednesday", "Thursday", "Friday", "Saturday", "Sunday">>

(***************************************************************************)
(* JavaScript numbers that are not finite: x / 0 is NaN for x = 0,         *)
(* Infinity for x > 0 and -Infinity for x < 0.  Infinity orders as a       *)
(* number above every value of the model, NaN is absorbing in Math.min     *)
(* and Math.max.                                                           *)
(***************************************************************************)
NaN == -1000000000
Infinity == 1000000000

MathMin(a, b) == IF a = NaN \/ b = NaN THEN NaN ELSE IF a < b THEN a ELSE b

MathMax(a, b) == IF a = NaN \/ b = NaN THEN NaN ELSE IF a > b THEN a ELSE b

\* Math.round((n / d) * 100): the nearest integer, halves rounded up.
RoundPct(n, d) ==
  IF d = 0
    THEN (IF n = 0 THEN NaN ELSE IF n > 0 THEN Infinity ELSE 0 - Infinity)
    ELSE (200 * n + d) \div (2 * d)

\* variant: the cap at 100 left out
CappedPctUncapped(actual, target) ==
  IF target > 0 THEN RoundPct(actual, target) ELSE 0

\* variant: the zero-target guard left out
CappedPctUnguarded(actual, target) == MathMin(100, RoundPct(actual, target))

\* target > 0 ? Math.min(100, Math.round((actual / target) * 100)) : 0
CappedPct(actual, target) ==
  IF target > 0 THEN MathMin(100, RoundPct(actual, target)) ELSE 0

(***************************************************************************)
(* Records.  A week log holds the 7 daily entries of one habit; daily[d+1] *)
(* is the entry of day index d.                                            *)
(***************************************************************************)
HabitId(i) == "habit-" \o ToString(i)

HabitName(i) == "Habit " \o ToString(i)

\* updateDayHours stores checked = (hours > 0) with the hours it is given.
DailyLog(d, hours) == [dayIndex |-> d, checked |-> hours > 0, actualHours |-> hours]

RECURSIVE SumActualHours(_)
SumActualHours(daily) ==
  IF daily = <<>> THEN 0
  ELSE SumActualHours(SubSeq(daily, 1, Len(daily) - 1)) + daily[Len(daily)].actualHours

(***************************************************************************)
(* calculateWeeklyProgress                                                 *)
(***************************************************************************)
\* weekLog.daily[todayIndex]?.actualHours || 0
HabitTodayActual(weekLog, today) ==
  IF today + 1 \in DOMAIN weekLog.daily THEN weekLog.daily[today + 1].actualHours ELSE 0

HabitProgressOf(hwl, today) ==
  LET weeklyTarget == hwl.habit.targetHoursPerDay * 7
      weeklyActual == SumActualHours(hwl.weekLog.daily)
      habitTodayActual == HabitTodayActual(hwl.weekLog, today)
  IN [habitId |-> hwl.habit.id,
      habitName |-> hwl.habit.name,
      weeklyTarget |-> weeklyTarget,
      weeklyActual |-> weeklyActual,
      weeklyPct |-> CappedPct(weeklyActual, weeklyTarget),
      todayTarget |-> hwl.habit.targetHoursPerDay,
      todayActual |-> habitTodayActual,
      todayPct |-> CappedPct(habitTodayActual, hwl.habit.targetHoursPerDay)]

\* dailyTotals[i].target and .actual after the loop over the first n pairings
RECURSIVE DayTarget(_, _, _)
DayTarget(hwls, n, d) ==
  IF n = 0 THEN 0
  ELSE DayTarget(hwls, n - 1, d)
       + (IF d + 1 \in DOMAIN hwls[n].weekLog.daily
            THEN hwls[n].habit.targetHoursPerDay ELSE 0)

RECURSIVE DayActual(_, _, _)
DayActual(hwls, n, d) ==
  IF n = 0 THEN 0
  ELSE DayActual(hwls, n - 1, d)
       + (IF d + 1 \in DOMAIN hwls[n].weekLog.daily
            THEN hwls[n].weekLog.daily[d + 1].actualHours ELSE 0)

DailyProgressOf(hwls, d) ==
  LET target == DayTarget(hwls, Len(hwls), d)
      actual == DayActual(hwls, Len(hwls), d)
  IN [dayIndex |-> d,
      dayName |-> DAY_NAMES[d + 1],
      target |-> target,
      actual |-> actual,
      pct |-> CappedPct(actual, target)]

\* running totals of the per-habit loop
RECURSIVE SumField(_, _)
SumField(seq, field) ==
  IF seq = <<>> THEN 0
  ELSE SumField(SubSeq(seq, 1, Len(seq) - 1), field) + seq[Len(seq)][field]

\* variant: days elapsed taken from today's index for a past week too
DaysElapsedAlwaysToday(today, current) == today + 1

\* isCurrentWeek ? todayIndex + 1 : 7
DaysElapsed(today, current) == IF current THEN today + 1 ELSE 7

\* dailyProgress.slice(0, end): the entries of day indices 0 .. end - 1
Slice0(seq, end) == SubSeq(seq, 1, MathMin(MathMax(end, 0), Len(seq)))

\* variant: the slice stops before today
ActualHoursToDateBeforeToday(dailyProgress, totalActualWeek, today, current) ==
  IF current THEN SumField(Slice0(dailyProgress, today), "actual")
  ELSE totalActualWeek

\* isCurrentWeek ? dailyProgress.slice(0, todayIndex + 1).reduce(...) : totalActualWeek
ActualHoursToDate(dailyProgress, totalActualWeek, today, current) ==
  IF current THEN SumField(Slice0(dailyProgress, today + 1), "actual")
  ELSE totalActualWeek

\* variant: the expectedHours > 0 guard left out
PlDeltaPctUnguarded(plDelta, expectedHours) == RoundPct(plDelta, expectedHours)

\* expectedHours > 0 ? Math.round((plDelta / expectedHours) * 100) : 0
PlDeltaPct(plDelta, expectedHours) ==
  IF expectedHours > 0 THEN RoundPct(plDelta, expectedHours) ELSE 0

\* variant: the floor at 0 left out
HoursRemainingSigned(totalTargetWeek, totalActualWeek) ==
  totalTargetWeek - totalActualWeek

\* Math.max(0, totalTargetWeek - totalActualWeek)
HoursRemaining(totalTargetWeek, totalActualWeek) ==
  MathMax(0, totalTargetWeek - totalActualWeek)

calculateWeeklyProgress(hwls, today, current) ==
  LET habitProgress == [i \in 1..Len(hwls) |-> HabitProgressOf(hwls[i], today)]
      dailyProgress == [d \in 1..DAYS |-> DailyProgressOf(hwls, d - 1)]
      totalTargetWeek == SumField(habitProgress, "weeklyTarget")
      totalActualWeek == SumField(habitProgress, "weeklyActual")
      todayTarget == SumField(habitProgress, "todayTarget")
      todayActual == SumField(habitProgress, "todayActual")
      \* (totalTargetWeek / 7) * daysElapsed; totalTargetWeek is a sum of
      \* targetHoursPerDay * 7, so the quotient is exact
      expectedHours == (totalTargetWeek \div 7) * DaysElapsed(today, current)
      actualHoursToDate ==
        ActualHoursToDate(dailyProgress, totalActualWeek, today, current)
      plDelta == actualHoursToDate - expectedHours
  IN [totalTargetWeek |-> totalTargetWeek,
      totalActualWeek |-> totalActualWeek,
      overallWeeklyPct |-> CappedPct(totalActualWeek, totalTargetWeek),
      todayTarget |-> todayTarget,
      todayActual |-> todayActual,
      todayPct |-> CappedPct(todayActual, todayTarget),
      hoursCompleted |-> totalActualWeek,
      hoursRemaining |-> HoursRemaining(totalTargetWeek, totalActualWeek),
      plDelta |-> plDelta,
      plDeltaPct |-> PlDeltaPct(plDelta, expectedHours),
      isAhead |-> plDelta >= 0,
      habitProgress |-> habitProgress,
      dailyProgress |-> dailyProgress]

(***************************************************************************)
(* generateInsights                                                        *)
(***************************************************************************)
\* the entries of seq at the positions in keep, in position order
RECURSIVE SelectAt(_, _, _)
SelectAt(seq, keep, n) ==
  IF n = 0 THEN <<>>
  ELSE SelectAt(seq, keep, n - 1) \o (IF n \in keep THEN <<seq[n]>> ELSE <<>>)

\* variant: a metric without pairing is given the first pairing of the list
FindPairingOrFirst(hwls, habitId) ==
  LET hits == {i \in DOMAIN hwls : hwls[i].habit.id = habitId}
  IN IF hits = {} THEN (IF hwls = <<>> THEN 0 ELSE 1)
     ELSE CHOOSE i \in hits : \A j \in hits : i <= j

\* habitsWithLogs.find((h) => h.habit.id === hp.habitId): position of the
\* first pairing with that id, 0 when there is none
FindPairing(hwls, habitId) ==
  LET hits == {i \in DOMAIN hwls : hwls[i].habit.id = habitId}
  IN IF hits = {} THEN 0 ELSE CHOOSE i \in hits : \A j \in hits : i <= j

\* isCurrentWeek ? todayIndex : 6
MaxDayToCheck(today, current) == IF current THEN today ELSE 6

\* variant: the scan runs one day past maxDayToCheck
MissedDayPositionsOneMore(hwl, today, current) ==
  {i \in DOMAIN hwl.weekLog.daily :
     /\ i - 1 <= MaxDayToCheck(today, current) + 1
     /\ 2 * hwl.weekLog.daily[i].actualHours < hwl.habit.targetHoursPerDay}

\* 1. Discipline leak: habit < 60% weekly
\* day.actualHours < habit.targetHoursPerDay * 0.5, both sides doubled
MissedDayPositions(hwl, today, current) ==
  {i \in DOMAIN hwl.weekLog.daily :
     /\ i - 1 <= MaxDayToCheck(today, current)
     /\ 2 * hwl.weekLog.daily[i].actualHours < hwl.habit.targetHoursPerDay}

DisciplineLeak(hp, hwl, today, current) ==
  LET missedDays ==
        SelectAt(DAY_NAMES_SHORT, MissedDayPositions(hwl, today, current), DAYS)
  IN IF hp.weeklyPct < 60 /\ Len(missedDays) > 0
       THEN << [tag |-> "DISCIPLINE",
                title |-> hwl.habit.name \o " Underperforming",
                message |-> [text |-> "Discipline leak",
                             name |-> hwl.habit.name,
                             count |-> Len(missedDays),
                             plural |-> Len(missedDays) > 1,
                             days |-> missedDays],
                priority |-> 4,
                habitId |-> hp.habitId] >>
       ELSE <<>>

\* variant: the checked flag is ignored, every elapsed day is taken
CheckedDaysAllElapsed(daily, today, current) ==
  SelectAt(daily,
           {i \in DOMAIN daily : current => i - 1 <= today},
           Len(daily))

\* 2. Under-executed: checked but low hours
CheckedDays(daily, today, current) ==
  SelectAt(daily,
           {i \in DOMAIN daily : daily[i].checked /\ (current => i - 1 <= today)},
           Len(daily))

\* variant: the under-executed insight has the priority of the discipline leak
UnderExecutedAsLeak(hp, hwl, today, current) ==
  LET checkedDays == CheckedDays(hwl.weekLog.daily, today, current)
      sum == SumActualHours(checkedDays)
      target == hwl.habit.targetHoursPerDay
  IN IF /\ Len(checkedDays) >= 2
        /\ target > 0
        /\ 10 * sum < 7 * Len(checkedDays) * target
        /\ sum > 0
       THEN << [tag |-> "RISK",
                title |-> hwl.habit.name \o " Under-Executed",
                message |-> [text |-> "Under-executed",
                             avgSum |-> sum,
                             avgDays |-> Len(checkedDays),
                             target |-> target],
                priority |-> 4,
                habitId |-> hp.habitId] >>
       ELSE <<>>

\* executionRatio < 0.7 && executionRatio > 0, where executionRatio is
\* (sum / count) / target for a positive target and 0 otherwise
UnderExecuted(hp, hwl, today, current) ==
  LET checkedDays == CheckedDays(hwl.weekLog.daily, today, current)
      sum == SumActualHours(checkedDays)
      target == hwl.habit.targetHoursPerDay
  IN IF /\ Len(checkedDays) >= 2
        /\ target > 0
        /\ 10 * sum < 7 * Len(checkedDays) * target
        /\ sum > 0
       THEN << [tag |-> "RISK",
                title |-> hwl.habit.name \o " Under-Executed",
                message |-> [text |-> "Under-executed",
                             avgSum |-> sum,
                             avgDays |-> Len(checkedDays),
                             target |-> target],
                priority |-> 3,
                habitId |-> hp.habitId] >>
       ELSE <<>>

\* variant: today counts among the remaining days
RecoveryPlanWithToday(hp, hwl, today, current) ==
  LET daysRemaining == 7 - today
      remaining5 == MathMax(0, 4 * hp.weeklyTarget - 5 * hp.weeklyActual)
  IN IF current /\ hp.weeklyPct < 80 /\ daysRemaining > 0 /\ remaining5 > 0
       THEN << [tag |-> "RECOVERY",
                title |-> hwl.habit.name \o " Recovery Plan",
                message |-> [text |-> "To reach 80% by Sunday",
                             remaining5 |-> remaining5,
                             daysRemaining |-> daysRemaining],
                priority |-> 2,
                habitId |-> hp.habitId] >>
       ELSE <<>>

\* 3. Recovery plan for habits below 80%
\* remaining = Math.max(0, hp.weeklyTarget * 0.8 - hp.weeklyActual), carried
\* as 5 * remaining
RecoveryPlan(hp, hwl, today, current) ==
  LET daysRemaining == 6 - today
      remaining5 == MathMax(0, 4 * hp.weeklyTarget - 5 * hp.weeklyActual)
  IN IF current /\ hp.weeklyPct < 80 /\ daysRemaining > 0 /\ remaining5 > 0
       THEN << [tag |-> "RECOVERY",
                title |-> hwl.habit.name \o " Recovery Plan",
                message |-> [text |-> "To reach 80% by Sunday",
                             remaining5 |-> remaining5,
                             daysRemaining |-> daysRemaining],
                priority |-> 2,
                habitId |-> hp.habitId] >>
       ELSE <<>>

\* variant: the percent has to exceed 100
TargetHitAbove(hp, hwl) ==
  IF hp.weeklyPct > 100
    THEN << [tag |-> "ALPHA",
             title |-> hwl.habit.name \o " Target Hit!",
             message |-> [text |-> "Strong execution",
                          name |-> hwl.habit.name,
                          pct |-> hp.weeklyPct],
             priority |-> 1,
             habitId |-> hp.habitId] >>
    ELSE <<>>

\* 4. Alpha: habit exceeding targets
TargetHit(hp, hwl) ==
  IF hp.weeklyPct >= 100
    THEN << [tag |-> "ALPHA",
             title |-> hwl.habit.name \o " Target Hit!",
             message |-> [text |-> "Strong execution",
                          name |-> hwl.habit.name,
                          pct |-> hp.weeklyPct],
             priority |-> 1,
             habitId |-> hp.habitId] >>
    ELSE <<>>

\* the body of habitProgress.forEach for one metric
PerHabitInsights(hwls, hp, today, current) ==
  LET at == FindPairing(hwls, hp.habitId)
  IN IF at = 0 THEN <<>>
     ELSE DisciplineLeak(hp, hwls[at], today, current)
          \o UnderExecuted(hp, hwls[at], today, current)
          \o RecoveryPlan(hp, hwls[at], today, current)
          \o TargetHit(hp, hwls[at])

RECURSIVE AllPerHabitInsights(_, _, _, _, _)
AllPerHabitInsights(hwls, habitProgress, n, today, current) ==
  IF n = 0 THEN <<>>
  ELSE AllPerHabitInsights(hwls, habitProgress, n - 1, today, current)
       \o PerHabitInsights(hwls, habitProgress[n], today, current)

(***************************************************************************)
(* Array.prototype.sort with the comparator (a, b) => b.key - a.key: a     *)
(* stable sort, descending by key.  keys[i] is the key of seq[i]; the      *)
(* result is the order of the positions.                                   *)
(***************************************************************************)
\* variant: an unstable sort, equal keys end up in reverse order
InsertDescUnstable(placed, i, keys) ==
  LET ahead == Cardinality({j \in DOMAIN placed : keys[placed[j]] > keys[i]})
  IN SubSeq(placed, 1, ahead) \o <<i>> \o SubSeq(placed, ahead + 1, Len(placed))

\* position i goes behind every position already placed whose key is not
\* smaller: equal keys keep their original order
InsertDesc(placed, i, keys) ==
  LET ahead == Cardinality({j \in DOMAIN placed : keys[placed[j]] >= keys[i]})
  IN SubSeq(placed, 1, ahead) \o <<i>> \o SubSeq(placed, ahead + 1, Len(placed))

\* variant: the array is left in its original order
UnsortedPositions(keys, n) == [i \in 1..n |-> i]

RECURSIVE SortedPositions(_, _)
SortedPositions(keys, n) ==
  IF n = 0 THEN <<>> ELSE InsertDesc(SortedPositions(keys, n - 1), n, keys)

SortDescBy(seq, field) ==
  LET keys == [i \in DOMAIN seq |-> seq[i][field]]
      order == SortedPositions(keys, Len(seq))
  IN [i \in DOMAIN seq |-> seq[order[i]]]

\* 5. Best performing habit
TopBottom(habitProgress) ==
  IF Len(habitProgress) >= 2
    THEN LET sorted == SortDescBy(habitProgress, "weeklyPct")
             best == sorted[1]
             worst == sorted[Len(sorted)]
         IN IF best.weeklyPct > worst.weeklyPct
              THEN << [tag |-> "ALPHA",
                       title |-> "Top Performer",
                       message |-> [text |-> "Best habit",
                                    name |-> best.habitName,
                                    pct |-> best.weeklyPct],
                       priority |-> 1,
                       habitId |-> "undefined"] >>
                   \o (IF worst.weeklyPct < 50
                         THEN << [tag |-> "RISK",
                                  title |-> "Weakest Position",
                                  message |-> [text |-> "Worst habit",
                                               name |-> worst.habitName,
                                               pct |-> worst.weeklyPct],
                                  priority |-> 4,
                                  habitId |-> "undefined"] >>
                         ELSE <<>>)
              ELSE <<>>
    ELSE <<>>

\* variant: the whole week is analysed, whatever today is
AnalyzableDaysWholeWeek(dailyProgress, today, current) == dailyProgress

\* dailyProgress.slice(0, maxDayToAnalyze + 1)
AnalyzableDays(dailyProgress, today, current) ==
  Slice0(dailyProgress, MaxDayToCheck(today, current) + 1)

\* analyzableDays.reduce((worst, day) => day.pct < worst.pct ? day : worst)
RECURSIVE WorstDay(_, _)
WorstDay(days, n) ==
  IF n = 1 THEN days[1]
  ELSE LET worst == WorstDay(days, n - 1)
       IN IF days[n].pct < worst.pct THEN days[n] ELSE worst

\* 6. Most missed day
WeakDay(analyzableDays) ==
  IF Len(analyzableDays) >= 2
    THEN LET worstDay == WorstDay(analyzableDays, Len(analyzableDays))
         IN IF worstDay.pct < 50
              THEN << [tag |-> "DISCIPLINE",
                       title |-> "Weak Day Identified",
                       message |-> [text |-> "Most missed day",
                                    day |-> DAY_NAMES_FULL[worstDay.dayIndex + 1],
                                    pct |-> worstDay.pct],
                       priority |-> 3,
                       habitId |-> "undefined"] >>
              ELSE <<>>
    ELSE <<>>

\* variant: one insight is pushed for every flagged day
StreakBrokenPerDay(analyzableDays) ==
  LET flagged == {i \in DOMAIN analyzableDays :
                    /\ i > 1
                    /\ analyzableDays[i - 1].pct >= 70
                    /\ analyzableDays[i].pct < 40}
      inconsistentDays ==
        SelectAt([i \in DOMAIN analyzableDays |->
                    DAY_NAMES_SHORT[analyzableDays[i].dayIndex + 1]],
                 flagged, Len(analyzableDays))
  IN [n \in 1..Len(inconsistentDays) |->
        [tag |-> "DISCIPLINE",
         title |-> "Streak Broken",
         message |-> [text |-> "Consistency alert", days |-> <<inconsistentDays[n]>>],
         priority |-> 4,
         habitId |-> "undefined"]]

\* 7. Streak alert - inconsistency detection
StreakBroken(analyzableDays) ==
  LET flagged == {i \in DOMAIN analyzableDays :
                    /\ i > 1
                    /\ analyzableDays[i - 1].pct >= 70
                    /\ analyzableDays[i].pct < 40}
      inconsistentDays ==
        SelectAt([i \in DOMAIN analyzableDays |->
                    DAY_NAMES_SHORT[analyzableDays[i].dayIndex + 1]],
                 flagged, Len(analyzableDays))
  IN IF Len(inconsistentDays) > 0
       THEN << [tag |-> "DISCIPLINE",
                title |-> "Streak Broken",
                message |-> [text |-> "Consistency alert", days |-> inconsistentDays],
                priority |-> 4,
                habitId |-> "undefined"] >>
       ELSE <<>>

\* the two totals of rule 8: dailyProgress.reduce over the whole array
ProjectionTotals(dailyProgress) ==
  [actual |-> SumField(dailyProgress, "actual"),
   target |-> SumField(dailyProgress, "target")]

\* Math.min(100, Math.round((totalActual / totalTarget) * 100))
ProjectedMonthlyPct(dailyProgress) ==
  LET totals == ProjectionTotals(dailyProgress)
  IN MathMin(100, RoundPct(totals.actual, totals.target))

\* 8. Monthly projection estimate
MonthlyProjection(dailyProgress, today, current) ==
  LET totals == ProjectionTotals(dailyProgress)
      daysAnalyzed == MaxDayToCheck(today, current) + 1
      projectedMonthlyPct == ProjectedMonthlyPct(dailyProgress)
  IN IF daysAnalyzed >= 3 /\ totals.target > 0
       THEN IF projectedMonthlyPct < 70
              THEN << [tag |-> "RISK",
                       title |-> "Monthly Projection",
                       message |-> [text |-> "If you repeat this pattern",
                                    pct |-> projectedMonthlyPct],
                       priority |-> 5,
                       habitId |-> "undefined"] >>
            ELSE IF projectedMonthlyPct >= 90
              THEN << [tag |-> "ALPHA",
                       title |-> "Strong Trajectory",
                       message |-> [text |-> "Projected monthly consistency",
                                    pct |-> projectedMonthlyPct],
                       priority |-> 1,
                       habitId |-> "undefined"] >>
            ELSE <<>>
       ELSE <<>>

\* 9. Perfect day celebration
WinningStreak(analyzableDays) ==
  LET perfectDays == {i \in DOMAIN analyzableDays : analyzableDays[i].pct >= 100}
  IN IF Cardinality(perfectDays) >= 3
       THEN << [tag |-> "ALPHA",
                title |-> "Winning Streak",
                message |-> [text |-> "perfect days this week",
                             count |-> Cardinality(perfectDays)],
                priority |-> 1,
                habitId |-> "undefined"] >>
       ELSE <<>>

\* variant: the rule also runs for a past week
TodayInsightAnyWeek(dailyProgress, today, current) ==
  IF today + 1 \in DOMAIN dailyProgress
    THEN LET todayData == dailyProgress[today + 1]
         IN IF todayData.pct = 0 /\ todayData.target > 0
              THEN << [tag |-> "DISCIPLINE",
                       title |-> "Day Not Started",
                       message |-> [text |-> "Today's target",
                                    target |-> todayData.target],
                       priority |-> 5,
                       habitId |-> "undefined"] >>
            ELSE IF todayData.pct >= 50 /\ todayData.pct < 100
              THEN << [tag |-> "RECOVERY",
                       title |-> "Close the Day Strong",
                       message |-> [text |-> "remaining today",
                                    remaining |-> todayData.target - todayData.actual,
                                    pct |-> todayData.pct],
                       priority |-> 3,
                       habitId |-> "undefined"] >>
            ELSE IF todayData.pct >= 100
              THEN << [tag |-> "ALPHA",
                       title |-> "Today Complete!",
                       message |-> [text |-> "Daily target achieved",
                                    actual |-> todayData.actual,
                                    target |-> todayData.target],
                       priority |-> 1,
                       habitId |-> "undefined"] >>
            ELSE <<>>
    ELSE <<>>

\* 10. Today-specific insight
TodayInsight(dailyProgress, today, current) ==
  IF current /\ today + 1 \in DOMAIN dailyProgress
    THEN LET todayData == dailyProgress[today + 1]
         IN IF todayData.pct = 0 /\ todayData.target > 0
              THEN << [tag |-> "DISCIPLINE",
                       title |-> "Day Not Started",
                       message |-> [text |-> "Today's target",
                                    target |-> todayData.target],
                       priority |-> 5,
                       habitId |-> "undefined"] >>
            ELSE IF todayData.pct >= 50 /\ todayData.pct < 100
              THEN << [tag |-> "RECOVERY",
                       title |-> "Close the Day Strong",
                       message |-> [text |-> "remaining today",
                                    remaining |-> todayData.target - todayData.actual,
                                    pct |-> todayData.pct],
                       priority |-> 3,
                       habitId |-> "undefined"] >>
            ELSE IF todayData.pct >= 100
              THEN << [tag |-> "ALPHA",
                       title |-> "Today Complete!",
                       message |-> [text |-> "Daily target achieved",
                                    actual |-> todayData.actual,
                                    target |-> todayData.target],
                       priority |-> 1,
                       habitId |-> "undefined"] >>
            ELSE <<>>
    ELSE <<>>

\* every insights.push of one call, in the order of the calls
EmittedInsights(hwls, habitProgress, dailyProgress, today, current) ==
  LET analyzableDays == AnalyzableDays(dailyProgress, today, current)
  IN AllPerHabitInsights(hwls, habitProgress, Len(habitProgress), today, current)
     \o TopBottom(habitProgress)
     \o WeakDay(analyzableDays)
     \o StreakBroken(analyzableDays)
     \o MonthlyProjection(dailyProgress, today, current)
     \o WinningStreak(analyzableDays)
     \o TodayInsight(dailyProgress, today, current)

\* variant: the counter is kept between calls, it goes on from the number of
\* insights of the previous call
createInsightSharedCounter(draft, n, now) ==
  [id |-> Len(insights) + n,
   tag |-> draft.tag,
   title |-> draft.title,
   message |-> draft.message,
   priority |-> draft.priority,
   habitId |-> draft.habitId,
   timestamp |-> now]

\* createInsight: the n-th insight created in a call gets the id insight-n
\* (idCounter starts at 0 in every call) and the call's Date.now()
createInsight(draft, n, now) ==
  [id |-> n,
   tag |-> draft.tag,
   title |-> draft.title,
   message |-> draft.message,
   priority |-> draft.priority,
   habitId |-> draft.habitId,
   timestamp |-> now]

generateInsights(hwls, habitProgress, dailyProgress, today, current, now) ==
  LET emitted == EmittedInsights(hwls, habitProgress, dailyProgress, today, current)
      created == [n \in DOMAIN emitted |-> createInsight(emitted[n], n, now)]
  IN SortDescBy(created, "priority")

(***************************************************************************)
(* The export (generateExportData).  It rounds hours to a tenth of an      *)
(* hour, so it needs the unit of the hours values: they count quarter      *)
(* hours, the step of the forms' hour inputs.  A value rounded to a tenth  *)
(* is carried as its number of tenths.                                     *)
(***************************************************************************)
UnitsPerHour == 4

\* Math.round(hours * 10) / 10, in tenths of an hour
RoundTenths(units) == (20 * units + UnitsPerHour) \div (2 * UnitsPerHour)

getGrade(pct) ==
  IF pct >= 95 THEN "S"
  ELSE IF pct >= 85 THEN "A"
  ELSE IF pct >= 70 THEN "B"
  ELSE IF pct >= 50 THEN "C"
  ELSE IF pct >= 30 THEN "D"
  ELSE "F"

\* the entry of one pairing in the export; weeklyTarget is not rounded and
\* stays in quarter hours, weeklyActual is rounded and is in tenths; the
\* percent is taken from the unrounded numbers (colorTag, which is copied
\* through, is left out)
ExportedHabit(hwl) ==
  LET weeklyActual == SumActualHours(hwl.weekLog.daily)
      weeklyTarget == hwl.habit.targetHoursPerDay * 7
  IN [name |-> hwl.habit.name,
      targetPerDay |-> hwl.habit.targetHoursPerDay,
      weeklyTarget |-> weeklyTarget,
      weeklyActual |-> RoundTenths(weeklyActual),
      weeklyPct |-> CappedPct(weeklyActual, weeklyTarget),
      daily |-> [d \in DOMAIN hwl.weekLog.daily |->
                   [day |-> DAY_NAMES_FULL[d],
                    checked |-> hwl.weekLog.daily[d].checked,
                    hours |-> hwl.weekLog.daily[d].actualHours]]]

generateExportData(hwls, weekId, overview, now) ==
  [weekId |-> weekId,
   exportedAt |-> now,
   summary |-> [totalHabits |-> Len(hwls),
                weeklyCompletion |-> overview.overallWeeklyPct,
                hoursCompleted |-> RoundTenths(overview.hoursCompleted),
                hoursTarget |-> RoundTenths(overview.totalTargetWeek),
                grade |-> getGrade(overview.overallWeeklyPct)],
   habits |-> [i \in DOMAIN hwls |-> ExportedHabit(hwls[i])]]

(***************************************************************************)
(* The explored inputs.  Daily targets and daily hours range over          *)
(* 0..MaxHours.  A pairing list of up to MaxHabits habits is read habit by *)
(* habit and day by day; it has at most one irregularity: either all its   *)
(* habits have the same target and the hours step at most once somewhere   *)
(* in the list (on some day of some habit), or the hours are the same in   *)
(* every cell and the targets step at most once along the list.            *)
(***************************************************************************)
Hours == 0..MaxHours

\* the sequences of a given length that hold one value
ConstantRuns(len) == {[k \in 1..len |-> a] : a \in Hours}

\* the sequences of a given length that hold one value up to a position and
\* one value after it
SteppedRuns(len) ==
  ConstantRuns(len)
    \cup {[k \in 1..len |-> IF k <= at THEN a ELSE b] :
            at \in 1..(len - 1), a \in Hours, b \in Hours}

Pairing(i, target, w) ==
  [habit |-> [id |-> HabitId(i), name |-> HabitName(i), targetHoursPerDay |-> target],
   weekLog |-> [habitId |-> HabitId(i),
                daily |-> [d \in 1..DAYS |-> DailyLog(d - 1, w[d])]]]

\* the list of n pairings with targets t[1..n] and hours r[1..7n]
PairingList(n, t, r) ==
  [i \in 1..n |-> Pairing(i, t[i], [d \in 1..DAYS |-> r[(i - 1) * DAYS + d]])]

PairingLists(n) ==
  IF n = 0 THEN {<<>>}
  ELSE {PairingList(n, t, r) : t \in ConstantRuns(n), r \in SteppedRuns(n * DAYS)}
       \cup {PairingList(n, t, r) : t \in SteppedRuns(n), r \in ConstantRuns(n * DAYS)}

Inputs == UNION {PairingLists(n) : n \in 0..MaxHabits}

\* up to RankHabits habits, all with the target MaxHours, each with its own
\* hours, the same on all 7 days
RankInputs ==
  UNION {{[i \in 1..n |-> Pairing(i, MaxHours, [d \in 1..DAYS |-> u[i]])] :
            u \in [1..n -> Hours]}
         : n \in 0..RankHabits}

(***************************************************************************)
(* Weeks of one habit whose checked flags are set independently of the     *)
(* hours.  The days of the week are split in two parts, either at a day    *)
(* (Monday up to some day, and the days after it) or by parity (Monday,    *)
(* Wednesday, Friday and Sunday against the other days); each part has     *)
(* its own hours and its own checked flag.                                 *)
(***************************************************************************)
\* a daily entry with its two fields given apart
DailyEntry(d, checked, hours) ==
  [dayIndex |-> d, checked |-> checked, actualHours |-> hours]

DaySplits == {0..(at - 1) : at \in 0..6} \cup {{0, 2, 4, 6}}

WeekPairing(i, target, first, a, ca, b, cb) ==
  [habit |-> [id |-> HabitId(i), name |-> HabitName(i), targetHoursPerDay |-> target],
   weekLog |-> [habitId |-> HabitId(i),
                daily |-> [d \in 1..DAYS |->
                             IF d - 1 \in first THEN DailyEntry(d - 1, ca, a)
                             ELSE DailyEntry(d - 1, cb, b)]]]

WeekInputs ==
  {<<WeekPairing(1, target, first, a, ca, b, cb)>> :
     target \in Hours, first \in DaySplits,
     a \in Hours, ca \in BOOLEAN, b \in Hours, cb \in BOOLEAN}

(***************************************************************************)
(* The useHabits hook.  The weekLogs collection of the document store      *)
(* holds at most one document per (week, habit), under the id              *)
(* week_habit; store maps the pairs <<week, habit id>> that have a         *)
(* document to it.  The hook keeps the result of the last snapshot of the  *)
(* query on the selected week in weekLogs.  The user is signed in and the  *)
(* habits are loaded; updatedAt is left out of the documents.              *)
(***************************************************************************)
HOOK_WEEKS == <<"2025-W01", "2025-W02">>

\* the habits of the signed-in user: one without target, one with
HookHabits ==
  << [id |-> HabitId(1), name |-> HabitName(1), targetHoursPerDay |-> 0],
     [id |-> HabitId(2), name |-> HabitName(2), targetHoursPerDay |-> 2] >>

createEmptyWeekLog(habitId, weekId) ==
  [weekId |-> weekId,
   habitId |-> habitId,
   daily |-> [d \in 1..DAYS |-> DailyEntry(d - 1, FALSE, 0)]]

\* query(weekLogsRef, where('weekId', '==', weekId)): the documents of that
\* week, in the order of their ids
RECURSIVE QueryWeekLogs(_, _, _)
QueryWeekLogs(st, weekId, n) ==
  IF n = 0 THEN <<>>
  ELSE QueryWeekLogs(st, weekId, n - 1)
       \o (IF <<weekId, HookHabits[n].id>> \in DOMAIN st
             THEN <<st[<<weekId, HookHabits[n].id>>]>>
             ELSE <<>>)

\* logs.find((log) => log.habitId === habitId): position of the first log
\* of that habit, 0 when there is none
FindLog(logs, habitId) ==
  LET hits == {i \in DOMAIN logs : logs[i].habitId = habitId}
  IN IF hits = {} THEN 0 ELSE CHOOSE i \in hits : \A j \in hits : i <= j

\* habits.map: each habit with its log in weekLogs, or with an empty log of
\* the selected week
joinHabitsWithLogs(habits, logs, weekId) ==
  [i \in DOMAIN habits |->
     [habit |-> habits[i],
      weekLog |-> IF FindLog(logs, habits[i].id) = 0
                    THEN createEmptyWeekLog(habits[i].id, weekId)
                    ELSE logs[FindLog(logs, habits[i].id)]]]

\* updateDoc(ref, {daily}): replaces the field daily of an existing
\* document; the call is rejected when the document does not exist
updateDoc(st, key, daily) ==
  IF key \in DOMAIN st THEN [st EXCEPT ![key].daily = daily] ELSE st

\* setDoc(ref, doc): creates the document or replaces it as a whole
setDoc(st, key, document) == (key :> document) @@ st

\* the write of toggleDay / updateDayHours for entry d with the new pair
\* (checked, hours): onto the log found in weekLogs, else as a new log
WriteEntry(st, logs, weekId, habitId, d, checked, hours) ==
  LET at == FindLog(logs, habitId)
      key == <<weekId, habitId>>
  IN IF at # 0
       THEN updateDoc(st, key,
                      [logs[at].daily EXCEPT ![d + 1] = DailyEntry(d, checked, hours)])
       ELSE setDoc(st, key,
                   [createEmptyWeekLog(habitId, weekId) EXCEPT
                      !.daily[d + 1] = DailyEntry(d, checked, hours)])

\* the pair that toggleDay writes: the negation of the checked flag found in
\* weekLogs (checked when there is no log), with the target or 0 hours
ToggledChecked(logs, habitId, d) ==
  LET at == FindLog(logs, habitId)
  IN IF at # 0 THEN ~logs[at].daily[d + 1].checked ELSE TRUE

(***************************************************************************)
(* The state machine: the dashboard holds the pairings of the week under   *)
(* view, today's day index and whether that week is the current one; it    *)
(* aggregates them and then runs the rules on the aggregate.  The two      *)
(* exported functions are called on every input of the family, the empty   *)
(* list included (InsightsPanel itself returns no insight for an empty     *)
(* list without calling them; ExportMenu calls the aggregator on any       *)
(* list).                                                                  *)
(***************************************************************************)
\* nothing has happened outside the analytics
HookIdle ==
  /\ store = <<>>
  /\ weekLogs = <<>>
  /\ currentWeekId = HOOK_WEEKS[1]
  /\ writes = 0

QueueIdle ==
  /\ syncQueue = <<>>
  /\ nextOp = 1
  /\ retryResult = "none"

\* the device is online and the hook was mounted online, with an empty queue
NetworkIdle ==
  /\ online = TRUE
  /\ status = [isOnline |-> TRUE, wasOffline |-> FALSE, pendingOperations |-> 0]

NavigatorIdle ==
  /\ navWeek = <<>>
  /\ weekList = <<>>
  /\ lastNav = "idle"

DebouncerIdle ==
  /\ clock = 0
  /\ timers = {}
  /\ nextTimer = 1
  /\ debounceTimeouts = <<>>
  /\ saving = {}
  /\ lastCall = <<>>

UiIdle == NavigatorIdle /\ DebouncerIdle

OutsideIdle == exportData = <<>> /\ HookIdle /\ QueueIdle /\ NetworkIdle /\ UiIdle

\* the analytics are not in use
AnalyticsIdle ==
  /\ habitsWithLogs = <<>>
  /\ todayIndex = 0
  /\ isCurrentWeek = FALSE
  /\ progress = <<>>
  /\ insights = <<>>
  /\ pc = "idle"

InitWith(inputs) ==
  /\ habitsWithLogs \in inputs
  /\ todayIndex \in 0..6
  /\ isCurrentWeek \in BOOLEAN
  /\ progress = <<>>
  /\ insights = <<>>
  /\ pc = "input"
  /\ OutsideIdle

Init == InitWith(Inputs)

InitRank == InitWith(RankInputs)

InitWeek == InitWith(WeekInputs)

CalculateWeeklyProgress ==
  /\ pc = "input"
  /\ progress' = calculateWeeklyProgress(habitsWithLogs, todayIndex, isCurrentWeek)
  /\ pc' = "aggregated"
  /\ UNCHANGED <<habitsWithLogs, todayIndex, isCurrentWeek, insights>>
  /\ UNCHANGED outside

\* a call of generateInsights on the aggregate; the call can be repeated on
\* the same arguments (a re-render), each call reads the clock anew
GenerateInsights ==
  /\ pc \in {"aggregated", "insights"}
  /\ \E now \in 0..MaxNow :
       insights' = generateInsights(habitsWithLogs, progress.habitProgress,
                                    progress.dailyProgress, todayIndex,
                                    isCurrentWeek, now)
  /\ pc' = "insights"
  /\ UNCHANGED <<habitsWithLogs, todayIndex, isCurrentWeek, progress>>
  /\ UNCHANGED outside

Next == CalculateWeeklyProgress \/ GenerateInsights

Spec == Init /\ [][Next]_vars

SpecRank == InitRank /\ [][Next]_vars

SpecWeek == InitWeek /\ [][Next]_vars

(***************************************************************************)
(* generateInsights takes the pairings and the metrics as separate         *)
(* arguments.  To reach the calls in which a metric has no pairing, one    *)
(* pairing is removed from the list after the aggregation: the metrics     *)
(* then hold one habit id that the pairings do not.                        *)
(***************************************************************************)
DropPairing ==
  /\ pc = "aggregated"
  /\ Len(habitsWithLogs) = Len(progress.habitProgress)
  /\ \E i \in DOMAIN habitsWithLogs :
       habitsWithLogs' = SelectAt(habitsWithLogs, DOMAIN habitsWithLogs \ {i},
                                  Len(habitsWithLogs))
  /\ UNCHANGED <<todayIndex, isCurrentWeek, progress, insights, pc>>
  /\ UNCHANGED outside

NextOrphan == Next \/ DropPairing

SpecOrphan == InitRank /\ [][NextOrphan]_vars

(***************************************************************************)
(* The export menu aggregates the pairings of the week under view and      *)
(* builds the export from the pairings and the aggregate.                  *)
(***************************************************************************)
ExportWeekId == "2025-W01"

GenerateExportData ==
  /\ pc = "aggregated"
  /\ \E now \in 0..MaxNow :
       exportData' = generateExportData(habitsWithLogs, ExportWeekId, progress, now)
  /\ pc' = "exported"
  /\ UNCHANGED <<habitsWithLogs, todayIndex, isCurrentWeek, progress, insights>>
  /\ UNCHANGED <<hook, queue, network, ui>>

NextExport == CalculateWeeklyProgress \/ GenerateExportData

SpecExport == Init /\ [][NextExport]_vars

(***************************************************************************)
(* The useHabits hook as a state machine.  A write reaches the store when  *)
(* it is issued; the snapshot listener delivers the documents of the       *)
(* selected week to the hook some time later, and until then the hook      *)
(* works on the weekLogs it has.  Changing the week re-subscribes the      *)
(* listener to the new week; weekLogs is replaced by its first snapshot.   *)
(***************************************************************************)
InitHook == AnalyticsIdle /\ OutsideIdle

SetCurrentWeekId ==
  /\ \E w \in {HOOK_WEEKS[k] : k \in DOMAIN HOOK_WEEKS} :
       /\ w # currentWeekId
       /\ currentWeekId' = w
  /\ UNCHANGED <<store, weekLogs, writes, analytics, exportData, queue, network, ui>>

\* the onSnapshot callback: setWeekLogs(snapshot.docs.map(...))
DeliverSnapshot ==
  /\ weekLogs # QueryWeekLogs(store, currentWeekId, Len(HookHabits))
  /\ weekLogs' = QueryWeekLogs(store, currentWeekId, Len(HookHabits))
  /\ UNCHANGED <<store, currentWeekId, writes, analytics, exportData, queue, network, ui>>

ToggleDay ==
  /\ writes < MaxWrites
  /\ \E i \in DOMAIN HookHabits, d \in 0..LastEditDay :
       LET newChecked == ToggledChecked(weekLogs, HookHabits[i].id, d)
       IN store' = WriteEntry(store, weekLogs, currentWeekId, HookHabits[i].id, d,
                              newChecked,
                              IF newChecked THEN HookHabits[i].targetHoursPerDay ELSE 0)
  /\ writes' = writes + 1
  /\ UNCHANGED <<weekLogs, currentWeekId, analytics, exportData, queue, network, ui>>

\* variant: updateDayHours leaves the entry unchecked
CheckedForHoursNever(hours) == FALSE

\* checked: hours > 0
CheckedForHours(hours) == hours > 0

UpdateDayHours ==
  /\ writes < MaxWrites
  /\ \E i \in DOMAIN HookHabits, d \in 0..LastEditDay, hours \in 0..MaxEdit :
       store' = WriteEntry(store, weekLogs, currentWeekId, HookHabits[i].id, d,
                           CheckedForHours(hours), hours)
  /\ writes' = writes + 1
  /\ UNCHANGED <<weekLogs, currentWeekId, analytics, exportData, queue, network, ui>>

\* an empty log is created for every habit that has neither a log in
\* weekLogs nor a document in the store
RECURSIVE WithEmptyLogs(_, _, _, _)
WithEmptyLogs(st, logs, weekId, n) ==
  IF n = 0 THEN st
  ELSE LET rest == WithEmptyLogs(st, logs, weekId, n - 1)
           habitId == HookHabits[n].id
       IN IF FindLog(logs, habitId) = 0 /\ <<weekId, habitId>> \notin DOMAIN st
            THEN setDoc(rest, <<weekId, habitId>>, createEmptyWeekLog(habitId, weekId))
            ELSE rest

EnsureWeekLogsExist ==
  /\ store' = WithEmptyLogs(store, weekLogs, currentWeekId, Len(HookHabits))
  /\ store' # store
  /\ UNCHANGED <<weekLogs, currentWeekId, writes, analytics, exportData, queue, network, ui>>

NextHook ==
  \/ SetCurrentWeekId
  \/ DeliverSnapshot
  \/ ToggleDay
  \/ UpdateDayHours
  \/ EnsureWeekLogsExist

SpecHook == InitHook /\ [][NextHook]_vars

(***************************************************************************)
(* Properties.  They are stated from the inputs, independently of the      *)
(* operators above.                                                        *)
(***************************************************************************)
RECURSIVE SumFn(_, _)
SumFn(f, S) ==
  IF S = {} THEN 0
  ELSE LET x == CHOOSE y \in S : TRUE IN f[x] + SumFn(f, S \ {x})

\* hours logged by the habits of hwls on the day indices in days
HoursLogged(hwls, days) ==
  LET cells == (DOMAIN hwls) \X days
  IN SumFn([c \in cells |-> hwls[c[1]].weekLog.daily[c[2] + 1].actualHours], cells)

\* the sum of the daily targets of the habits of hwls
TargetPerDay(hwls) ==
  SumFn([i \in DOMAIN hwls |-> hwls[i].habit.targetHoursPerDay], DOMAIN hwls)

\* p is n / d * 100 rounded to the nearest integer, halves up (d > 0)
IsRoundedPct(p, n, d) == (2 * p - 1) * d <= 200 * n /\ 200 * n < (2 * p + 1) * d

Aggregated == pc \in {"aggregated", "insights"}

Finite(x) == x # NaN /\ x # Infinity /\ x # 0 - Infinity

\* C1: the list returned by generateInsights is sorted by priority
\* non-increasing, and insights of equal priority keep the order in which the
\* rules emitted them (ids are assigned in emission order).
C1_SortedStable ==
  pc = "insights" =>
    \A i, j \in DOMAIN insights :
      i < j =>
        \/ insights[i].priority > insights[j].priority
        \/ /\ insights[i].priority = insights[j].priority
           /\ insights[i].id < insights[j].id

\* the sort moved an insight forward, and two insights of equal priority
\* that were emitted apart from each other ended up adjacent
C1_Witness ==
  /\ pc = "insights"
  /\ \E i, j \in DOMAIN insights : i < j /\ insights[i].id > insights[j].id
  /\ \E i \in DOMAIN insights :
       /\ i + 1 \in DOMAIN insights
       /\ insights[i].priority = insights[i + 1].priority
       /\ insights[i + 1].id > insights[i].id + 1

\* C2: every percent produced by calculateWeeklyProgress is an integer in
\* 0..100, however large actual / target is.
C2_PercentsCapped ==
  Aggregated =>
    /\ \A i \in DOMAIN progress.habitProgress :
         /\ progress.habitProgress[i].weeklyPct \in 0..100
         /\ progress.habitProgress[i].todayPct \in 0..100
    /\ DOMAIN progress.dailyProgress = 1..7
    /\ \A d \in DOMAIN progress.dailyProgress :
         progress.dailyProgress[d].pct \in 0..100
    /\ progress.overallWeeklyPct \in 0..100
    /\ progress.todayPct \in 0..100

\* a habit, a day and the week as a whole are all over their targets
C2_Witness ==
  /\ pc = "aggregated"
  /\ \E i \in DOMAIN progress.habitProgress :
       LET hp == progress.habitProgress[i]
       IN /\ hp.weeklyTarget > 0 /\ hp.weeklyActual > hp.weeklyTarget
          /\ hp.todayActual > hp.todayTarget /\ hp.todayTarget > 0
          /\ hp.weeklyPct = 100 /\ hp.todayPct = 100
  /\ \E d \in DOMAIN progress.dailyProgress :
       /\ progress.dailyProgress[d].actual > progress.dailyProgress[d].target
       /\ progress.dailyProgress[d].target > 0
  /\ progress.totalActualWeek > progress.totalTargetWeek
  /\ progress.overallWeeklyPct = 100

\* C3: a zero target gives a zero percent: per day, per habit (weekly and
\* today), overall, today and for the pacing percent; no result of a division
\* by zero (NaN, Infinity) ever appears in the output.
C3_ZeroTargetZeroPct ==
  Aggregated =>
    /\ \A d \in DOMAIN progress.dailyProgress :
         /\ progress.dailyProgress[d].target = 0 => progress.dailyProgress[d].pct = 0
         /\ Finite(progress.dailyProgress[d].pct)
    /\ \A i \in DOMAIN progress.habitProgress :
         /\ habitsWithLogs[i].habit.targetHoursPerDay = 0 =>
              /\ progress.habitProgress[i].weeklyPct = 0
              /\ progress.habitProgress[i].todayPct = 0
         /\ Finite(progress.habitProgress[i].weeklyPct)
         /\ Finite(progress.habitProgress[i].todayPct)
    /\ progress.totalTargetWeek = 0 => progress.overallWeeklyPct = 0
    /\ progress.todayTarget = 0 => progress.todayPct = 0
    /\ progress.totalTargetWeek * DaysElapsed(todayIndex, isCurrentWeek) = 0 =>
         progress.plDeltaPct = 0
    /\ Finite(progress.overallWeeklyPct)
    /\ Finite(progress.todayPct)
    /\ Finite(progress.plDeltaPct)

\* every target is zero while hours are logged, today included
C3_Witness ==
  /\ pc = "aggregated"
  /\ Len(habitsWithLogs) = 2
  /\ progress.totalTargetWeek = 0
  /\ progress.todayActual > 0
  /\ \A i \in DOMAIN progress.habitProgress :
       progress.habitProgress[i].weeklyActual > 0

\* C4: with an empty pairing list every total, every percent and the pacing
\* are 0, habitProgress is empty and the 7 day entries are all zero, for
\* every todayIndex and both values of isCurrentWeek.
C4_EmptyInput ==
  (Aggregated /\ habitsWithLogs = <<>>) =>
    /\ progress.totalTargetWeek = 0
    /\ progress.totalActualWeek = 0
    /\ progress.hoursCompleted = 0
    /\ progress.hoursRemaining = 0
    /\ progress.overallWeeklyPct = 0
    /\ progress.todayTarget = 0
    /\ progress.todayActual = 0
    /\ progress.todayPct = 0
    /\ progress.plDelta = 0
    /\ progress.plDeltaPct = 0
    /\ progress.habitProgress = <<>>
    /\ Len(progress.dailyProgress) = 7
    /\ \A d \in 1..7 :
         /\ progress.dailyProgress[d].dayIndex = d - 1
         /\ progress.dailyProgress[d].target = 0
         /\ progress.dailyProgress[d].actual = 0
         /\ progress.dailyProgress[d].pct = 0

C4_Witness ==
  /\ pc = "aggregated"
  /\ habitsWithLogs = <<>>
  /\ isCurrentWeek
  /\ todayIndex = 3

\* C5: in the current week, expected-to-date = (totalTargetWeek / 7) x
\* (todayIndex + 1), actual-to-date = the hours of days 0..todayIndex only,
\* plDelta is their difference, plDeltaPct = round(plDelta / expected x 100)
\* when expected > 0 and 0 otherwise, and isAhead is exactly plDelta >= 0.
C5_PacingCurrentWeek ==
  (Aggregated /\ isCurrentWeek) =>
    LET expected7 == progress.totalTargetWeek * (todayIndex + 1)
        actualToDate == HoursLogged(habitsWithLogs, 0..todayIndex)
    IN /\ 7 * progress.plDelta = 7 * actualToDate - expected7
       /\ IF expected7 > 0
            THEN IsRoundedPct(progress.plDeltaPct, 7 * progress.plDelta, expected7)
            ELSE progress.plDeltaPct = 0
       /\ progress.isAhead <=> progress.plDelta >= 0

\* mid-week, hours logged both up to today and after today, behind the pace
C5_Witness ==
  /\ pc = "aggregated"
  /\ isCurrentWeek
  /\ todayIndex = 2
  /\ HoursLogged(habitsWithLogs, 0..2) > 0
  /\ HoursLogged(habitsWithLogs, 3..6) > 0
  /\ progress.plDelta < 0
  /\ progress.plDeltaPct < 0
  /\ ~progress.isAhead

\* C6: for a past week the pacing does not depend on todayIndex: every
\* todayIndex gives the same plDelta, plDeltaPct and isAhead, and plDelta =
\* totalActualWeek - totalTargetWeek.
C6_PastWeekIgnoresToday ==
  (Aggregated /\ ~isCurrentWeek) =>
    /\ progress.plDelta = progress.totalActualWeek - progress.totalTargetWeek
    /\ \A t \in 0..6 :
         LET other == calculateWeeklyProgress(habitsWithLogs, t, FALSE)
         IN /\ other.plDelta = progress.plDelta
            /\ other.plDeltaPct = progress.plDeltaPct
            /\ other.isAhead = progress.isAhead

\* a past week viewed early in the week, with hours logged on its later days
C6_Witness ==
  /\ pc = "aggregated"
  /\ ~isCurrentWeek
  /\ todayIndex = 1
  /\ progress.totalTargetWeek > 0
  /\ HoursLogged(habitsWithLogs, 2..6) > 0
  /\ progress.plDelta # 0

\* C7: totalTargetWeek = sum of 7 x daily target, totalActualWeek =
\* hoursCompleted = sum of all actual hours, hoursRemaining = max(0,
\* totalTargetWeek - totalActualWeek), and the 7 day entries partition both
\* totals.
C7_TotalsPartition ==
  Aggregated =>
    /\ progress.totalTargetWeek = 7 * TargetPerDay(habitsWithLogs)
    /\ progress.totalActualWeek = HoursLogged(habitsWithLogs, 0..6)
    /\ progress.hoursCompleted = progress.totalActualWeek
    /\ progress.hoursRemaining =
         (IF progress.totalTargetWeek >= progress.totalActualWeek
            THEN progress.totalTargetWeek - progress.totalActualWeek ELSE 0)
    /\ SumFn([d \in 1..7 |-> progress.dailyProgress[d].actual], 1..7)
         = progress.totalActualWeek
    /\ SumFn([d \in 1..7 |-> progress.dailyProgress[d].target], 1..7)
         = progress.totalTargetWeek
    /\ \A d \in 1..7 :
         /\ progress.dailyProgress[d].target = TargetPerDay(habitsWithLogs)
         /\ progress.dailyProgress[d].actual = HoursLogged(habitsWithLogs, {d - 1})

\* two habits, more hours logged than targeted, the days not all alike
C7_Witness ==
  /\ pc = "aggregated"
  /\ Len(habitsWithLogs) = 2
  /\ progress.totalActualWeek > progress.totalTargetWeek
  /\ progress.totalTargetWeek > 0
  /\ progress.hoursRemaining = 0
  /\ progress.dailyProgress[1].actual # progress.dailyProgress[7].actual

\* the positions of the returned insights with a given title
Titled(title) == {k \in DOMAIN insights : insights[k].title = title}

\* the last elapsed day index: todayIndex in the current week, 6 in a past one
LastElapsedDay == IF isCurrentWeek THEN todayIndex ELSE 6

\* the k-th smallest element of a set of numbers
KthOf(S, k) == CHOOSE d \in S : Cardinality({e \in S : e < d}) = k - 1

\* the elapsed days on which pairing i logged less than half its daily target
MissedDays(i) ==
  {d \in 0..LastElapsedDay :
     2 * habitsWithLogs[i].weekLog.daily[d + 1].actualHours
       < habitsWithLogs[i].habit.targetHoursPerDay}

\* the returned DISCIPLINE priority-4 insights that carry the id of pairing i
LeakInsights(i) ==
  {k \in DOMAIN insights :
     /\ insights[k].tag = "DISCIPLINE"
     /\ insights[k].priority = 4
     /\ insights[k].habitId = habitsWithLogs[i].habit.id}

\* C8: rule 1 emits exactly one DISCIPLINE priority-4 insight for a habit iff
\* its weeklyPct < 60 and some elapsed day has actualHours < 0.5 x target;
\* the message lists exactly those days' short labels in day order, with
\* their count; otherwise it emits none for that habit.
C8_DisciplineLeak ==
  pc = "insights" =>
    \A i \in DOMAIN habitsWithLogs :
      IF progress.habitProgress[i].weeklyPct < 60 /\ MissedDays(i) # {}
        THEN /\ Cardinality(LeakInsights(i)) = 1
             /\ \A k \in LeakInsights(i) :
                  /\ insights[k].message.count = Cardinality(MissedDays(i))
                  /\ Len(insights[k].message.days) = Cardinality(MissedDays(i))
                  /\ \A n \in 1..Cardinality(MissedDays(i)) :
                       insights[k].message.days[n]
                         = DAY_NAMES_SHORT[KthOf(MissedDays(i), n) + 1]
        ELSE LeakInsights(i) = {}

\* target 2, days 0-4 at 0, days 5-6 at 2, todayIndex 6, current week: 29%
\* and a leak that lists Mon..Fri
C8_Witness ==
  /\ pc = "insights"
  /\ Len(habitsWithLogs) = 1
  /\ isCurrentWeek /\ todayIndex = 6
  /\ habitsWithLogs[1].habit.targetHoursPerDay = 2
  /\ \A d \in 0..4 : habitsWithLogs[1].weekLog.daily[d + 1].actualHours = 0
  /\ \A d \in 5..6 : habitsWithLogs[1].weekLog.daily[d + 1].actualHours = 2
  /\ progress.habitProgress[1].weeklyPct = 29
  /\ \E k \in LeakInsights(1) :
       /\ insights[k].message.days = <<"Mon", "Tue", "Wed", "Thu", "Fri">>
       /\ insights[k].message.count = 5

\* C9: rule 8 takes both totals over the elapsed days only: with at least 3
\* elapsed days and a non-zero target, projected = min(100, round(actual /
\* target x 100)) over the elapsed days; a RISK priority-5 insight iff
\* projected < 70, an ALPHA priority-1 insight iff projected >= 90, and no
\* projection insight otherwise.  (projected < 70 iff actual / target x 100
\* < 69.5; projected >= 90 iff actual / target x 100 >= 89.5.)
C9_ProjectionOverElapsedDays ==
  pc = "insights" =>
    LET days == LastElapsedDay + 1
        totalActual == HoursLogged(habitsWithLogs, 0..LastElapsedDay)
        totalTarget == TargetPerDay(habitsWithLogs) * days
        risk == Titled("Monthly Projection")
        alpha == Titled("Strong Trajectory")
    IN /\ Cardinality(risk) =
            (IF days >= 3 /\ totalTarget # 0 /\ 200 * totalActual < 139 * totalTarget
               THEN 1 ELSE 0)
       /\ Cardinality(alpha) =
            (IF days >= 3 /\ totalTarget # 0 /\ 200 * totalActual >= 179 * totalTarget
               THEN 1 ELSE 0)
       /\ \A k \in risk : insights[k].tag = "RISK" /\ insights[k].priority = 5
       /\ \A k \in alpha : insights[k].tag = "ALPHA" /\ insights[k].priority = 1

\* the weekly percents of the metrics, their maximum and minimum
WeeklyPcts == {progress.habitProgress[i].weeklyPct : i \in DOMAIN progress.habitProgress}

MaxPct == CHOOSE p \in WeeklyPcts : \A q \in WeeklyPcts : q <= p

MinPct == CHOOSE p \in WeeklyPcts : \A q \in WeeklyPcts : p <= q

\* the first metric in input order with the maximum percent
FirstBest ==
  CHOOSE i \in DOMAIN progress.habitProgress :
    /\ progress.habitProgress[i].weeklyPct = MaxPct
    /\ \A j \in 1..(i - 1) : progress.habitProgress[j].weeklyPct < MaxPct

\* the last metric in input order with the minimum percent
LastWorst ==
  CHOOSE i \in DOMAIN progress.habitProgress :
    /\ progress.habitProgress[i].weeklyPct = MinPct
    /\ \A j \in DOMAIN progress.habitProgress :
         j > i => progress.habitProgress[j].weeklyPct > MinPct

\* C10: rule 5 emits one ALPHA priority-1 'Top Performer' iff there are at
\* least 2 metrics and the maximum weeklyPct exceeds the minimum, and one RISK
\* priority-4 'Weakest Position' iff in addition the minimum is below 50; the
\* best habit named is the first in input order with the maximum percent, the
\* worst the last in input order with the minimum, and they differ.
C10_TopBottom ==
  pc = "insights" =>
    LET spread == Len(progress.habitProgress) >= 2 /\ MaxPct > MinPct
        top == Titled("Top Performer")
        weakest == Titled("Weakest Position")
    IN /\ Cardinality(top) = (IF spread THEN 1 ELSE 0)
       /\ Cardinality(weakest) = (IF spread /\ MinPct < 50 THEN 1 ELSE 0)
       /\ \A k \in top :
            /\ insights[k].tag = "ALPHA" /\ insights[k].priority = 1
            /\ insights[k].message.name = progress.habitProgress[FirstBest].habitName
            /\ insights[k].message.pct = MaxPct
       /\ \A k \in weakest :
            /\ insights[k].tag = "RISK" /\ insights[k].priority = 4
            /\ insights[k].message.name = progress.habitProgress[LastWorst].habitName
            /\ insights[k].message.pct = MinPct
            /\ \A t \in top : insights[t].message.name # insights[k].message.name

\* three habits at 100%, 0% and 0%: the first is named best, the third worst
C10_Witness ==
  /\ pc = "insights"
  /\ Len(progress.habitProgress) = 3
  /\ progress.habitProgress[1].weeklyPct = 100
  /\ progress.habitProgress[2].weeklyPct = 0
  /\ progress.habitProgress[3].weeklyPct = 0
  /\ \E k \in Titled("Top Performer") :
       insights[k].message.name = progress.habitProgress[1].habitName
  /\ \E k \in Titled("Weakest Position") :
       insights[k].message.name = progress.habitProgress[3].habitName

\* the hours pairing i logged over the whole week
WeekHours(i) == HoursLogged(<<habitsWithLogs[i]>>, 0..6)

\* the returned RECOVERY priority-2 insights that carry the id of pairing i
RecoveryInsights(i) ==
  {k \in DOMAIN insights :
     /\ insights[k].tag = "RECOVERY"
     /\ insights[k].priority = 2
     /\ insights[k].habitId = habitsWithLogs[i].habit.id}

CheckedElapsed(i) ==
  {d \in 0..LastElapsedDay : habitsWithLogs[i].weekLog.daily[d + 1].checked}

\* the hours pairing i logged on its checked elapsed days
CheckedHours(i) ==
  SumFn([d \in CheckedElapsed(i) |-> habitsWithLogs[i].weekLog.daily[d + 1].actualHours],
        CheckedElapsed(i))

\* the returned RISK priority-3 insights that carry the id of pairing i
UnderExecutedInsights(i) ==
  {k \in DOMAIN insights :
     /\ insights[k].tag = "RISK"
     /\ insights[k].priority = 3
     /\ insights[k].habitId = habitsWithLogs[i].habit.id}

DayPct(d) == progress.dailyProgress[d + 1].pct

\* the lowest day percent among the elapsed days, and the earliest elapsed
\* day that has it
MinElapsedPct ==
  CHOOSE p \in {DayPct(d) : d \in 0..LastElapsedDay} :
    \A d \in 0..LastElapsedDay : p <= DayPct(d)

EarliestWorstDay ==
  CHOOSE d \in 0..LastElapsedDay :
    /\ DayPct(d) = MinElapsedPct
    /\ \A e \in 0..(d - 1) : DayPct(e) > MinElapsedPct

\* C13: rule 6 emits at most one 'Weak Day' insight (DISCIPLINE, priority
\* 3), and emits it iff at least 2 days have elapsed and the lowest day
\* percent over the elapsed days is below 50; it names the earliest elapsed
\* day with that percent, never a day after todayIndex of a current week.
C13_WeakDay ==
  pc = "insights" =>
    LET weak == Titled("Weak Day Identified")
    IN /\ Cardinality(weak) =
            (IF LastElapsedDay >= 1 /\ MinElapsedPct < 50 THEN 1 ELSE 0)
       /\ \A k \in weak :
            /\ insights[k].tag = "DISCIPLINE"
            /\ insights[k].priority = 3
            /\ insights[k].message.day = DAY_NAMES_FULL[EarliestWorstDay + 1]
            /\ insights[k].message.pct = MinElapsedPct
            /\ \E d \in 0..LastElapsedDay : insights[k].message.day = DAY_NAMES_FULL[d + 1]

\* Wednesday of the current week, Monday to Wednesday all at 25%, Thursday
\* to Sunday at 0%: Monday is named, at 25%
C13_Witness ==
  /\ pc = "insights"
  /\ isCurrentWeek /\ todayIndex = 2
  /\ \A d \in 0..2 : DayPct(d) = 25
  /\ \A d \in 3..6 : DayPct(d) = 0
  /\ \E k \in Titled("Weak Day Identified") :
       insights[k].message.day = "Monday" /\ insights[k].message.pct = 25

\* the elapsed days that follow a day at 70% or more and are themselves
\* below 40%
BrokenDays ==
  {d \in 1..LastElapsedDay : DayPct(d - 1) >= 70 /\ DayPct(d) < 40}

C15_TodayInsight ==
  pc = "insights" =>
    LET pct == DayPct(todayIndex)
        target == TargetPerDay(habitsWithLogs)
        actual == HoursLogged(habitsWithLogs, {todayIndex})
        notStarted == Titled("Day Not Started")
        close == Titled("Close the Day Strong")
        complete == Titled("Today Complete!")
    IN /\ Cardinality(notStarted) =
            (IF isCurrentWeek /\ pct = 0 /\ target > 0 THEN 1 ELSE 0)
       /\ Cardinality(close) =
            (IF isCurrentWeek /\ 50 <= pct /\ pct < 100 THEN 1 ELSE 0)
       /\ Cardinality(complete) =
            (IF isCurrentWeek /\ pct >= 100 THEN 1 ELSE 0)
       /\ Cardinality(notStarted \cup close \cup complete) <= 1
       /\ (~isCurrentWeek \/ target = 0 \/ (0 < pct /\ pct < 50)) =>
            notStarted \cup close \cup complete = {}
       /\ \A k \in notStarted :
            /\ insights[k].tag = "DISCIPLINE" /\ insights[k].priority = 5
            /\ insights[k].message.target = target
       /\ \A k \in close :
            /\ insights[k].tag = "RECOVERY" /\ insights[k].priority = 3
            /\ insights[k].message.remaining = target - actual
       /\ \A k \in complete :
            insights[k].tag = "ALPHA" /\ insights[k].priority = 1

\* two habits of target 2 on Thursday of the current week, 2 hours and 1
\* hour logged today: 75%, 1 hour remaining
C15_Witness ==
  /\ pc = "insights"
  /\ isCurrentWeek /\ todayIndex = 3
  /\ Len(habitsWithLogs) = 2
  /\ TargetPerDay(habitsWithLogs) = 4
  /\ HoursLogged(habitsWithLogs, {todayIndex}) = 3
  /\ DayPct(todayIndex) = 75
  /\ \E k \in Titled("Close the Day Strong") : insights[k].message.remaining = 1
  /\ Titled("Day Not Started") = {}
  /\ Titled("Today Complete!") = {}

\* the returned ALPHA priority-1 insights that carry the id of pairing i
TargetHitInsights(i) ==
  {k \in DOMAIN insights :
     /\ insights[k].tag = "ALPHA"
     /\ insights[k].priority = 1
     /\ insights[k].habitId = habitsWithLogs[i].habit.id}

\* the elapsed days at 100%
PerfectDays == {d \in 0..LastElapsedDay : DayPct(d) >= 100}

\* every habit has a positive target, logged exactly on every day of the
\* week and checked, seen on Sunday of the current week
ScenarioA ==
  /\ habitsWithLogs # <<>>
  /\ isCurrentWeek /\ todayIndex = 6
  /\ \A i \in DOMAIN habitsWithLogs :
       /\ habitsWithLogs[i].habit.targetHoursPerDay > 0
       /\ \A d \in 1..7 :
            /\ habitsWithLogs[i].weekLog.daily[d].checked
            /\ habitsWithLogs[i].weekLog.daily[d].actualHours
                 = habitsWithLogs[i].habit.targetHoursPerDay

PairedIds == {habitsWithLogs[i].habit.id : i \in DOMAIN habitsWithLogs}

\* the metrics whose habit id no pairing carries
OrphanMetrics ==
  {m \in DOMAIN progress.habitProgress : progress.habitProgress[m].habitId \notin PairedIds}

\* the metric of pairing i
MetricOf(i) ==
  CHOOSE m \in DOMAIN progress.habitProgress :
    progress.habitProgress[m].habitId = habitsWithLogs[i].habit.id

C18_IdsPrioritiesTags ==
  pc = "insights" =>
    /\ \A i, j \in DOMAIN insights : i # j => insights[i].id # insights[j].id
    /\ {insights[k].id : k \in DOMAIN insights} = 1..Len(insights)
    /\ \A k \in DOMAIN insights :
         /\ insights[k].priority \in 1..5
         /\ insights[k].tag \in {"RISK", "ALPHA", "DISCIPLINE", "RECOVERY"}

\* a returned list of at least 5 insights that holds all four tags and whose
\* first insight is not the first one emitted
C18_Witness ==
  /\ pc = "insights"
  /\ Len(insights) >= 5
  /\ insights[1].id # 1
  /\ {insights[k].tag : k \in DOMAIN insights} = {"RISK", "ALPHA", "DISCIPLINE", "RECOVERY"}

\* C19: generateInsights is a pure function of its five parameters
\* (habitsWithLogs, habitProgress, dailyProgress, todayIndex, isCurrentWeek):
\* a second call on the same parameters returns a list identical to the
\* first in every field, whatever the system clock shows.
C19_PureOfParameters ==
  [][(/\ pc = "insights" /\ pc' = "insights"
      /\ habitsWithLogs' = habitsWithLogs
      /\ progress' = progress
      /\ todayIndex' = todayIndex
      /\ isCurrentWeek' = isCurrentWeek)
       => insights' = insights]_vars

\* C21: for every habit, the percent recomputed from the weeklyActual and
\* weeklyTarget that the export emits for it, min(100, round(weeklyActual /
\* weeklyTarget x 100)) and 0 for a zero weeklyTarget, is the weeklyPct of
\* the aggregator for that habit.  (The export gives weeklyActual in tenths
\* of an hour and weeklyTarget in quarter hours: actual / target =
\* UnitsPerHour x tenths / (10 x quarters).)
C21_ExportRoundTrip ==
  pc = "exported" =>
    \A i \in DOMAIN exportData.habits :
      LET n == UnitsPerHour * exportData.habits[i].weeklyActual
          d == 10 * exportData.habits[i].weeklyTarget
          pct == progress.habitProgress[i].weeklyPct
      IN IF d = 0 THEN pct = 0
         ELSE \/ pct < 100 /\ IsRoundedPct(pct, n, d)
              \/ pct = 100 /\ 200 * n >= 199 * d

\* the pairings the hook hands to the dashboard
HookPairings == joinHabitsWithLogs(HookHabits, weekLogs, currentWeekId)

\* C22: in every state of the hook, habitsWithLogs holds exactly one pairing
\* per habit, in habit order, and the record of each pairing belongs to that
\* habit and to the selected week, also between setCurrentWeekId(w) and the
\* first snapshot for w.
C22_PairingOfSelectedWeek ==
  /\ Len(HookPairings) = Len(HookHabits)
  /\ \A i \in DOMAIN HookPairings :
       /\ HookPairings[i].habit = HookHabits[i]
       /\ HookPairings[i].weekLog.habitId = HookHabits[i].id
       /\ HookPairings[i].weekLog.weekId = currentWeekId
       /\ Len(HookPairings[i].weekLog.daily) = 7

\* the entry of day index d in the record of key k, an absent record
\* counting as all-zero
StoredEntry(st, k, d) ==
  IF k \in DOMAIN st THEN st[k].daily[d + 1] ELSE DailyEntry(d, FALSE, 0)

HookKeys == {<<HOOK_WEEKS[k], HookHabits[i].id>> : k \in DOMAIN HOOK_WEEKS, i \in DOMAIN HookHabits}

\* C28: a toggleDay or updateDayHours call changes only one entry d of the
\* record of (selected week, h) for one habit h: every other entry of that
\* record and every other record keep the values last stored, in every
\* interleaving of writes and snapshot deliveries.
C28_WriteChangesOneEntry ==
  [][writes' # writes =>
       \E i \in DOMAIN HookHabits, d \in 0..6 :
         \A k \in HookKeys, e \in 0..6 :
           (k # <<currentWeekId, HookHabits[i].id>> \/ e # d) =>
             StoredEntry(store', k, e) = StoredEntry(store, k, e)]_vars

\* C29: starting from all-zero records, after any sequence of toggleDay and
\* updateDayHours calls every stored daily entry with actualHours > 0 has
\* checked = true.
C29_HoursImplyChecked ==
  \A k \in DOMAIN store :
    \A d \in 1..7 : store[k].daily[d].actualHours > 0 => store[k].daily[d].checked

\* the converse fails: a stored entry is checked with 0 hours (a toggle on
\* the habit without target), next to an entry with hours
C29_Witness ==
  \E k \in DOMAIN store, j \in DOMAIN store :
    /\ \E d \in 1..7 : store[k].daily[d].checked /\ store[k].daily[d].actualHours = 0
    /\ \E d \in 1..7 : store[j].daily[d].checked /\ store[j].daily[d].actualHours > 0

(***************************************************************************)
(* The offline sync queue of offlineSync.ts.  The queue is the JSON array  *)
(* under the localStorage key habit-tracker-sync-queue: every function    *)
(* reads it, changes it and writes it back.  An operation is its id, its   *)
(* type and its retry count; the payload and the timestamp are never       *)
(* read by the queue functions.  The ids op-<time>-<random> are taken to   *)
(* be unique and are numbered in the order of creation.  localStorage is   *)
(* taken to accept every write and to hold what the functions wrote.       *)
(***************************************************************************)
MAX_RETRIES == 3

\* the operation types that the hours table would queue
QueuedTypes == {"toggleDay", "updateDayHours"}

RECURSIVE QueueWithout(_, _)
\* queue.filter(op => op.id !== id)
QueueWithout(q, id) ==
  IF q = <<>> THEN <<>>
  ELSE IF Head(q).id = id THEN QueueWithout(Tail(q), id)
       ELSE <<Head(q)>> \o QueueWithout(Tail(q), id)

\* addToSyncQueue: the new operation goes to the end with retries 0
addToSyncQueue(q, id, type) ==
  Append(q, [id |-> id, type |-> type, retries |-> 0])

\* removeFromSyncQueue
removeFromSyncQueue(q, id) == QueueWithout(q, id)

\* queue.find(op => op.id === id): the position of the first match, 0 for none
FindOperation(q, id) ==
  IF \E k \in DOMAIN q : q[k].id = id
  THEN CHOOSE k \in DOMAIN q : q[k].id = id /\ \A j \in 1..(k - 1) : q[j].id # id
  ELSE 0

\* the variant that drops an operation only after the cap was passed
incrementRetryPastCap(q, id) ==
  LET k == FindOperation(q, id) IN
    IF k = 0 THEN [queue |-> q, result |-> "false"]
    ELSE LET raised == [q EXCEPT ![k].retries = @ + 1] IN
           IF raised[k].retries > MAX_RETRIES
           THEN [queue |-> QueueWithout(raised, id), result |-> "false"]
           ELSE [queue |-> raised, result |-> "true"]

\* incrementRetry: the queue that is saved and the value that is returned
incrementRetry(q, id) ==
  LET k == FindOperation(q, id) IN
    IF k = 0 THEN [queue |-> q, result |-> "false"]
    ELSE LET raised == [q EXCEPT ![k].retries = @ + 1] IN
           IF raised[k].retries >= MAX_RETRIES
           THEN [queue |-> QueueWithout(raised, id), result |-> "false"]
           ELSE [queue |-> raised, result |-> "true"]

InitQueue == AnalyticsIdle /\ OutsideIdle

AddToSyncQueue ==
  /\ nextOp <= MaxOps
  /\ \E type \in QueuedTypes : syncQueue' = addToSyncQueue(syncQueue, nextOp, type)
  /\ nextOp' = nextOp + 1
  /\ retryResult' = "none"
  /\ UNCHANGED <<analytics, exportData, hook, network, ui>>

\* a call for the id of a queued operation (a call for another id rewrites
\* the queue as it is)
RemoveFromSyncQueue ==
  /\ \E k \in DOMAIN syncQueue :
       syncQueue' = removeFromSyncQueue(syncQueue, syncQueue[k].id)
  /\ retryResult' = "none"
  /\ UNCHANGED <<nextOp, analytics, exportData, hook, network, ui>>

\* a call for any id handed out so far, queued or not
IncrementRetry ==
  /\ \E id \in 1..MaxOps :
       /\ id < nextOp
       /\ syncQueue' = incrementRetry(syncQueue, id).queue
       /\ retryResult' = incrementRetry(syncQueue, id).result
  /\ UNCHANGED <<nextOp, analytics, exportData, hook, network, ui>>

NextQueue == AddToSyncQueue \/ RemoveFromSyncQueue \/ IncrementRetry

SpecQueue == InitQueue /\ [][NextQueue]_vars

QueuedIds(q) == {q[k].id : k \in DOMAIN q}

\* the queue q with the element at position k taken out
WithoutPosition(q, k) == SubSeq(q, 1, k - 1) \o SubSeq(q, k + 1, Len(q))

\* what a call incrementRetry(id) is to do to the queue and to return
RetryDoes(id) ==
  IF id \in QueuedIds(syncQueue)
  THEN \E k \in DOMAIN syncQueue :
         /\ syncQueue[k].id = id
         /\ IF syncQueue[k].retries + 1 < 3
            THEN /\ retryResult' = "true"
                 /\ syncQueue' = [syncQueue EXCEPT ![k].retries = syncQueue[k].retries + 1]
            ELSE /\ retryResult' = "false"
                 /\ syncQueue' = WithoutPosition(syncQueue, k)
  ELSE retryResult' = "false" /\ syncQueue' = syncQueue

ConnectionLost ==
  /\ online
  /\ online' = FALSE
  /\ UNCHANGED <<status, analytics, exportData, hook, queue, ui>>

ConnectionBack ==
  /\ ~online
  /\ online' = TRUE
  /\ UNCHANGED <<status, analytics, exportData, hook, queue, ui>>

HandleOnline ==
  /\ online /\ ~status.isOnline
  /\ status' = [status EXCEPT !.isOnline = TRUE, !.wasOffline = TRUE]
  /\ UNCHANGED <<online, analytics, exportData, hook, queue, ui>>

HandleOffline ==
  /\ ~online /\ status.isOnline
  /\ status' = [status EXCEPT !.isOnline = FALSE]
  /\ UNCHANGED <<online, analytics, exportData, hook, queue, ui>>

NextReplay ==
  \/ ConnectionLost
  \/ ConnectionBack
  \/ HandleOnline
  \/ HandleOffline
  \/ ToggleDay
  \/ DeliverSnapshot
  \/ AddToSyncQueue

\* the browser delivers a pending event to its listener, Firestore delivers
\* a pending snapshot
SpecReplay ==
  /\ InitQueue
  /\ [][NextReplay]_vars
  /\ WF_vars(HandleOnline)
  /\ WF_vars(HandleOffline)
  /\ WF_vars(DeliverSnapshot)

\* C24: a mutation made while the device is offline is appended to the
\* queue, and a queue that is not empty while the device is online is
\* eventually emptied unless the connection is lost again.
C24_OfflineReplay ==
  /\ [][(~online /\ writes' # writes) => Len(syncQueue') = Len(syncQueue) + 1]_vars
  /\ (online /\ status.isOnline /\ syncQueue # <<>>) ~> (~online \/ syncQueue = <<>>)

(***************************************************************************)
(* The week ids of dateUtils.ts.  A Date is the number of its calendar day *)
(* counted from 1 January of year 1 (a Monday) in the Gregorian calendar;  *)
(* the functions read the local year, month and day of a date and go on    *)
(* in UTC, so the time of day and the time zone play no part.  A week id   *)
(* YYYY-Www is the year and the two digits of the week.                    *)
(***************************************************************************)
\* the years of the explored week ids, and the years that a date computed
\* from them can fall in
Years == 2024..(2024 + MaxYears - 1)

CalendarYears == 2022..(2024 + MaxYears + 1)

\* the days before 1 January of year y
DaysBefore(y) ==
  365 * (y - 1) + ((y - 1) \div 4) - ((y - 1) \div 100) + ((y - 1) \div 400)

\* new Date(year, 0, 1) and new Date(year, 11, 31)
January1(year) == DaysBefore(year)

December31(year) == DaysBefore(year + 1) - 1

\* getUTCFullYear
getUTCFullYear(date) ==
  CHOOSE y \in CalendarYears : DaysBefore(y) <= date /\ date < DaysBefore(y + 1)

\* getUTCDay: 0 for Sunday, 1 for Monday, ..., 6 for Saturday
getUTCDay(date) == (date + 1) % 7

\* the date moved to the Thursday of its week: d.setUTCDate(d.getUTCDate() + 4 - dayNum)
NearestThursday(date) ==
  LET dayNum == IF getUTCDay(date) = 0 THEN 7 ELSE getUTCDay(date)
  IN date + 4 - dayNum

getISOWeekNumber(date) ==
  LET d == NearestThursday(date)
      yearStart == January1(getUTCFullYear(d))
  IN \* Math.ceil((days + 1) / 7)
     ((d - yearStart) + 1 + 6) \div 7

getISOWeekYear(date) == getUTCFullYear(NearestThursday(date))

\* `${year}-W${week.toString().padStart(2, '0')}`
FormatWeekId(year, week) ==
  [year |-> year, digits |-> IF week < 10 THEN <<0, week>> ELSE <<week \div 10, week % 10>>]

\* parseWeekId: parseInt of the two groups of /^(\d{4})-W(\d{2})$/
parseWeekId(weekId) ==
  [year |-> weekId.year, week |-> 10 * weekId.digits[1] + weekId.digits[2]]

getCurrentWeekId(date) == FormatWeekId(getISOWeekYear(date), getISOWeekNumber(date))

getPreviousWeekId(weekId) ==
  LET year == parseWeekId(weekId).year
      week == parseWeekId(weekId).week
      lastDayOfPrevYear == December31(year - 1)
  IN IF week = 1
     THEN FormatWeekId(getISOWeekYear(lastDayOfPrevYear), getISOWeekNumber(lastDayOfPrevYear))
     ELSE FormatWeekId(year, week - 1)

getNextWeekId(weekId) ==
  LET year == parseWeekId(weekId).year
      week == parseWeekId(weekId).week
      lastWeek == getISOWeekNumber(December31(year))
  IN IF week >= lastWeek
     THEN FormatWeekId(year + 1, 1)
     ELSE FormatWeekId(year, week + 1)

RECURSIVE PastList(_, _)
\* the loop that unshifts getPreviousWeekId(weekId) n times
PastList(weekId, n) ==
  IF n = 0 THEN <<>>
  ELSE PastList(getPreviousWeekId(weekId), n - 1) \o <<getPreviousWeekId(weekId)>>

RECURSIVE FutureList(_, _)
\* the loop that pushes getNextWeekId(weekId) n times
FutureList(weekId, n) ==
  IF n = 0 THEN <<>>
  ELSE <<getNextWeekId(weekId)>> \o FutureList(getNextWeekId(weekId), n - 1)

getWeekIdList(today, pastWeeks, futureWeeks) ==
  LET currentWeek == getCurrentWeekId(today)
  IN PastList(currentWeek, pastWeeks) \o <<currentWeek>> \o FutureList(currentWeek, futureWeeks)

(***************************************************************************)
(* The sidebar.  It is mounted on some day of the explored years with the  *)
(* week of that day selected and computes getWeekIdList(12, 4) once; the   *)
(* previous and next buttons replace the selected week, a choice in the    *)
(* dropdown selects a week of the list, and the current-week button        *)
(* selects the week of today (the day of the mount).                       *)
(***************************************************************************)
PAST_WEEKS == 12
FUTURE_WEEKS == 4

MountDays == January1(2024)..December31(2024 + MaxYears - 1)

InitNavigator ==
  /\ AnalyticsIdle
  /\ exportData = <<>>
  /\ HookIdle
  /\ QueueIdle
  /\ NetworkIdle
  /\ DebouncerIdle
  /\ \E today \in MountDays :
       /\ navWeek = getCurrentWeekId(today)
       /\ weekList = getWeekIdList(today, PAST_WEEKS, FUTURE_WEEKS)
  /\ lastNav = "mount"

HandlePreviousWeek ==
  /\ navWeek.year \in Years
  /\ navWeek' = getPreviousWeekId(navWeek)
  /\ lastNav' = "previous"
  /\ UNCHANGED <<weekList, analytics, exportData, hook, queue, network, debouncer>>

HandleNextWeek ==
  /\ navWeek.year \in Years
  /\ navWeek' = getNextWeekId(navWeek)
  /\ lastNav' = "next"
  /\ UNCHANGED <<weekList, analytics, exportData, hook, queue, network, debouncer>>

HandleWeekSelect ==
  /\ \E k \in DOMAIN weekList : navWeek' = weekList[k]
  /\ lastNav' = "select"
  /\ UNCHANGED <<weekList, analytics, exportData, hook, queue, network, debouncer>>

\* getCurrentWeekId() of today, which the list holds after the past weeks
HandleGoToCurrentWeek ==
  /\ navWeek' = weekList[PAST_WEEKS + 1]
  /\ lastNav' = "current"
  /\ UNCHANGED <<weekList, analytics, exportData, hook, queue, network, debouncer>>

NextNavigator ==
  \/ HandlePreviousWeek
  \/ HandleNextWeek
  \/ HandleWeekSelect
  \/ HandleGoToCurrentWeek

SpecNavigator == InitNavigator /\ [][NextNavigator]_vars

\* the Monday of ISO week 1 of a year: the Monday of the week of 4 January
\* (day 0 is a Monday)
MondayOfWeek1(year) ==
  LET jan4 == DaysBefore(year) + 3 IN jan4 - (jan4 % 7)

MondayOf(year, week) == MondayOfWeek1(year) + 7 * (week - 1)

\* the ISO year and week of the week that begins on the given Monday: the
\* year is the one that holds the Thursday of the week
IsoWeekOfMonday(monday) ==
  LET year == CHOOSE y \in CalendarYears :
                DaysBefore(y) <= monday + 3 /\ monday + 3 < DaysBefore(y + 1)
  IN [year |-> year, week |-> ((monday - MondayOfWeek1(year)) \div 7) + 1]

\* the week id is the id of an ISO week
ValidWeekId(weekId) ==
  LET w == [year |-> weekId.year, week |-> 10 * weekId.digits[1] + weekId.digits[2]]
  IN /\ w.week >= 1
     /\ IsoWeekOfMonday(MondayOf(w.year, w.week)) = w

\* the Monday of the week that a week id names
MondayOfId(weekId) == MondayOf(weekId.year, 10 * weekId.digits[1] + weekId.digits[2])

IdOfMonday(monday) ==
  LET w == IsoWeekOfMonday(monday)
  IN [year |-> w.year, digits |-> <<w.week \div 10, w.week % 10>>]

\* C25: the next button takes a valid ISO week id to the id of the ISO week
\* that begins 7 days later: the same year and the week number plus one,
\* or week 1 of the next year after the last week (52 or 53) of the year.
C25_NextWeek ==
  [][(lastNav' = "next" /\ ValidWeekId(navWeek))
        => navWeek' = IdOfMonday(MondayOfId(navWeek) + 7)]_vars

\* C26: the previous button takes a valid ISO week id to the id of the ISO
\* week that begins 7 days earlier, which is another id; next undoes
\* previous and previous undoes next; the week list holds 12 + 1 + 4 ids of
\* consecutive weeks, each beginning 7 days after the one before, with the
\* week of today at position 12 (counted from 0).
C26_PreviousWeek ==
  /\ [][(lastNav' = "previous" /\ ValidWeekId(navWeek))
          => /\ navWeek' = IdOfMonday(MondayOfId(navWeek) - 7)
             /\ navWeek' # navWeek
             /\ getNextWeekId(navWeek') = navWeek
             /\ getPreviousWeekId(getNextWeekId(navWeek)) = navWeek]_vars
  /\ [](lastNav # "idle" =>
          /\ Len(weekList) = PAST_WEEKS + 1 + FUTURE_WEEKS
          /\ \A k \in 1..(Len(weekList) - 1) :
               /\ ValidWeekId(weekList[k])
               /\ weekList[k + 1] = IdOfMonday(MondayOfId(weekList[k]) + 7)
          /\ \A j, k \in DOMAIN weekList : j # k => weekList[j] # weekList[k])

(***************************************************************************)
(* The debounced save of the hours table.  Time is counted in ticks of     *)
(* 200 ms; a timeout fires at the tick it is due, before the clock moves   *)
(* on.  handleHoursChange clears the timeout that the map holds for the    *)
(* cell, sets a new one and stores it in the map.  The timeout's callback  *)
(* calls updateDayHours and awaits it; the entry of the cell is deleted    *)
(* from the map when the write has settled successfully, by key, whatever  *)
(* timeout the entry then holds.  No snapshot arrives in the explored      *)
(* interval, so the write is made from the week logs of the call.          *)
(***************************************************************************)
DEBOUNCE_MS == 2

\* the cell keys `${habitId}_${dayIndex}` of the first day of every habit
EditedCells == {[habit |-> i, day |-> 0] : i \in DOMAIN HookHabits}

\* the map without the entry of a key
MapDelete(map, key) == [k \in DOMAIN map \ {key} |-> map[k]]

\* the map with the entry of a key set
MapSet(map, key, value) ==
  [k \in DOMAIN map \cup {key} |-> IF k = key THEN value ELSE map[k]]

\* clearTimeout: the pending timeouts without the one of the given id
clearTimeout(pending, id) == {t \in pending : t.id # id}

InitDebounce ==
  /\ AnalyticsIdle
  /\ exportData = <<>>
  /\ HookIdle
  /\ QueueIdle
  /\ NetworkIdle
  /\ NavigatorIdle
  /\ clock = 0
  /\ timers = {}
  /\ nextTimer = 1
  /\ debounceTimeouts = <<>>
  /\ saving = {}
  /\ lastCall = [c \in EditedCells |-> [at |-> 0, value |-> 0, served |-> TRUE]]

Tick ==
  /\ clock < MaxTime
  /\ \A t \in timers : t.due > clock
  /\ clock' = clock + 1
  /\ UNCHANGED <<timers, nextTimer, debounceTimeouts, saving, lastCall>>
  /\ UNCHANGED <<analytics, exportData, hook, queue, network, navigator>>

HandleHoursChange ==
  /\ nextTimer <= MaxCalls
  /\ \E cell \in EditedCells, clampedValue \in 0..MaxEdit :
       /\ timers' =
            (IF cell \in DOMAIN debounceTimeouts
             THEN clearTimeout(timers, debounceTimeouts[cell])
             ELSE timers)
            \cup {[id |-> nextTimer, cell |-> cell, value |-> clampedValue,
                   due |-> clock + DEBOUNCE_MS]}
       /\ debounceTimeouts' = MapSet(debounceTimeouts, cell, nextTimer)
       /\ lastCall' = [lastCall EXCEPT ![cell] =
                         [at |-> clock, value |-> clampedValue, served |-> FALSE]]
  /\ nextTimer' = nextTimer + 1
  /\ UNCHANGED <<clock, saving>>
  /\ UNCHANGED <<analytics, exportData, hook, queue, network, navigator>>

\* the callback of a timeout that is due: updateDayHours writes the entry
TimeoutFires ==
  /\ \E t \in timers :
       /\ t.due <= clock
       /\ timers' = timers \ {t}
       /\ saving' = saving \cup {[id |-> t.id, cell |-> t.cell, value |-> t.value]}
       /\ store' = WriteEntry(store, weekLogs, currentWeekId, HookHabits[t.cell.habit].id,
                              t.cell.day, CheckedForHours(t.value), t.value)
       /\ lastCall' = [lastCall EXCEPT ![t.cell].served = TRUE]
  /\ writes' = writes + 1
  /\ UNCHANGED <<clock, nextTimer, debounceTimeouts, weekLogs, currentWeekId>>
  /\ UNCHANGED <<analytics, exportData, queue, network, navigator>>

\* the awaited write resolves: debounceTimeouts.current.delete(cellKey)
SaveResolves ==
  /\ \E s \in saving :
       /\ saving' = saving \ {s}
       /\ debounceTimeouts' = MapDelete(debounceTimeouts, s.cell)
  /\ UNCHANGED <<clock, timers, nextTimer, lastCall>>
  /\ UNCHANGED <<analytics, exportData, hook, queue, network, navigator>>

\* the awaited write rejects: the catch logs the error
SaveRejects ==
  /\ \E s \in saving : saving' = saving \ {s}
  /\ UNCHANGED <<clock, timers, nextTimer, debounceTimeouts, lastCall>>
  /\ UNCHANGED <<analytics, exportData, hook, queue, network, navigator>>

NextDebounce ==
  \/ Tick
  \/ HandleHoursChange
  \/ TimeoutFires
  \/ SaveResolves
  \/ SaveRejects

SpecDebounce == InitDebounce /\ [][NextDebounce]_vars

\* C27: a save is started for a cell only when the debounce time has passed
\* since the last change of the cell's input, with the value of that change,
\* and once for that change; it is not started later than that; changes of
\* other cells play no part.
C27_Debounce ==
  /\ [][\A s \in saving' \ saving :
          /\ ~lastCall[s.cell].served
          /\ clock = lastCall[s.cell].at + DEBOUNCE_MS
          /\ s.value = lastCall[s.cell].value]_vars
  /\ [](\A c \in DOMAIN lastCall :
          ~lastCall[c].served => clock <= lastCall[c].at + DEBOUNCE_MS)

\* the insight of per-habit rule r (1..4) for one metric, empty when the
\* metric has no pairing
RuleFor(r, hp) ==
  LET at == FindPairing(habitsWithLogs, hp.habitId)
  IN IF at = 0 THEN <<>>
     ELSE CASE r = 1 -> DisciplineLeak(hp, habitsWithLogs[at], todayIndex, isCurrentWeek)
            [] r = 2 -> UnderExecuted(hp, habitsWithLogs[at], todayIndex, isCurrentWeek)
            [] r = 3 -> RecoveryPlan(hp, habitsWithLogs[at], todayIndex, isCurrentWeek)
            [] r = 4 -> TargetHit(hp, habitsWithLogs[at])

RECURSIVE RuleForAll(_, _)
\* rule r for the first n metrics, in the order of the metrics
RuleForAll(r, n) ==
  IF n = 0 THEN <<>>
  ELSE RuleForAll(r, n - 1) \o RuleFor(r, progress.habitProgress[n])

\* the insights in the order of a rule-by-rule evaluation: rule 1 for all
\* habits, ..., rule 4 for all habits, then rules 5 to 10
RuleByRule ==
  LET n == Len(progress.habitProgress)
      analyzableDays == AnalyzableDays(progress.dailyProgress, todayIndex, isCurrentWeek)
  IN RuleForAll(1, n) \o RuleForAll(2, n) \o RuleForAll(3, n) \o RuleForAll(4, n)
     \o TopBottom(progress.habitProgress)
     \o WeakDay(analyzableDays)
     \o StreakBroken(analyzableDays)
     \o MonthlyProjection(progress.dailyProgress, todayIndex, isCurrentWeek)
     \o WinningStreak(analyzableDays)
     \o TodayInsight(progress.dailyProgress, todayIndex, isCurrentWeek)

\* the elements of a sequence that have the given priority, in their order
WithPriority(seq, p) ==
  SelectAt(seq, {k \in DOMAIN seq : seq[k].priority = p}, Len(seq))

\* a stable sort by priority, descending: the groups of equal priority one
\* after the other, each in its original order
StableByPriority(seq) ==
  WithPriority(seq, 5) \o WithPriority(seq, 4) \o WithPriority(seq, 3)
  \o WithPriority(seq, 2) \o WithPriority(seq, 1)

\* an insight without its id and its timestamp
InsightContent(insight) ==
  [tag |-> insight.tag, title |-> insight.title, message |-> insight.message,
   priority |-> insight.priority, habitId |-> insight.habitId]

\* C30: the returned insights are, ids aside, the rule-by-rule evaluation
\* (rule 1 for all habits, ..., rule 4 for all habits, then rules 5 to 10)
\* sorted stably by priority, descending.
C30_RuleOrderEquivalence ==
  pc = "insights" =>
    /\ Len(insights) = Len(RuleByRule)
    /\ \A k \in DOMAIN insights :
         InsightContent(insights[k]) = StableByPriority(RuleByRule)[k]

\* two habits with two per-habit insights each, so that the rule-by-rule
\* order of emission is not the order in which the code emits
C30_Witness ==
  /\ pc = "insights"
  /\ Len(habitsWithLogs) = 2
  /\ \A i \in DOMAIN habitsWithLogs :
       Cardinality({k \in DOMAIN insights :
                      insights[k].habitId = habitsWithLogs[i].habit.id}) >= 2
  /\ RuleByRule # EmittedInsights(habitsWithLogs, progress.habitProgress,
                                  progress.dailyProgress, todayIndex, isCurrentWeek)

====
